---------------------------- MODULE Spec2Model ----------------------------
(***************************************************************************)
(* The onboarding step/state engine of onboard-engine (OnboardingProvider, *)
(* the revision that keeps completedSteps and subStepProgress): the        *)
(* progress record, the transition operations nextStep / prevStep /        *)
(* finish / goToStep, the reconciliation effect that runs on mount and on  *)
(* every change of the observed path, cookie persistence, and the          *)
(* overlay's controls.                                                     *)
(*                                                                         *)
(* JavaScript values are encoded as follows.  A URL or path is a sequence  *)
(* of one-character strings; the empty sequence stands for a missing       *)
(* (undefined) or empty string, which the code treats alike (both falsy).  *)
(* null is the integer Null, which no index ever equals.  An array is a    *)
(* sequence; the array index i is position i + 1 of the sequence.  A       *)
(* TypeError thrown inside a state updater unmounts the provider: the      *)
(* model sets crashed and nothing happens afterwards.                      *)
(***************************************************************************)
EXTENDS Integers, Sequences, FiniteSets, TLC

\* Largest number of steps of a configuration that is explored.
MaxSteps == 2
\* Longest walk: at most MaxWalk nextStep calls, then as many prevStep calls.
MaxWalk == 3
\* The chains of replayed clicks that may be pending at once.
MaxTimers == 1

\* null (types/index.ts: currentSubStepIndex: number | null)
Null == -9

VARIABLES
  config,          \* the configuration handed to the provider (never changes)
  state,           \* the progress record (OnboardingState)
  cookie,          \* the cookie: <<>> when absent, <<text>> otherwise
  seenCookie,      \* the cookie as it was when the last operation navigated
  currentPath,     \* window.location.pathname as the provider observed it
  isTransitioning, \* the provider's isTransitioning flag
  mounted,         \* the mount effects have run
  crashed,         \* a state updater threw
  lastOp,          \* the last operation and its arguments
  pre,             \* the progress record before the last operation
  navReq,          \* the navigations performed by the last operation
  callbacks,       \* invocations of onOnboardingComplete by the last operation
  clicked,         \* the targets clicked inline by the last operation
  entered,         \* the <<step, sub-step>> positions a nextStep call moved into
  walk,            \* bookkeeping of a walk of n nextStep then n prevStep calls
  sim,             \* the refs and timers of click replay, and what it last did
  returned         \* what the function applied last returned

engine == <<config, state, cookie, seenCookie, currentPath, isTransitioning,
            mounted, crashed, lastOp, pre, navReq, callbacks, clicked, returned>>

vars == <<config, state, cookie, seenCookie, currentPath, isTransitioning,
          mounted, crashed, lastOp, pre, navReq, callbacks, clicked,
          entered, walk, sim, returned>>

-----------------------------------------------------------------------------
(* URLs and paths *)

NoUrl == <<>>
UA == <<"/", "a">>
UB == <<"/", "b">>
UAX == <<"/", "a", "/", "x">>
UAStar == <<"/", "a", "*">>

Paths == {UA, UB, UAX}

-----------------------------------------------------------------------------
(* Configurations *)

Sub(nav, click) == [navigate |-> nav, click |-> click]

\* hasSubs says whether the step declares a subSteps array at all; an array
\* that is declared may still be empty.
Step(url, nav, click, hasSubs, subs) ==
  [urlMatch |-> url, navigate |-> nav, click |-> click,
   hasSubs |-> hasSubs, subSteps |-> subs]

StepsSingle == << Step(UA, NoUrl, FALSE, FALSE, <<>>) >>

StepsSubs == << Step(UA, NoUrl, TRUE, TRUE, <<Sub(NoUrl, TRUE), Sub(NoUrl, FALSE)>>) >>

StepsTwo ==
  << Step(UA, UB, FALSE, TRUE, <<Sub(NoUrl, FALSE), Sub(UAX, TRUE)>>),
     Step(UB, NoUrl, TRUE, FALSE, <<>>) >>

StepsSame ==
  << Step(UAStar, NoUrl, TRUE, FALSE, <<>>),
     Step(UAX, UAX, FALSE, TRUE, <<Sub(NoUrl, TRUE)>>) >>

StepsEmpty ==
  << Step(UA, UB, FALSE, TRUE, <<>>),
     Step(UB, NoUrl, FALSE, TRUE, <<>>) >>

StepsThree ==
  << Step(UA, NoUrl, FALSE, FALSE, <<>>),
     Step(UB, NoUrl, TRUE, FALSE, <<>>),
     Step(UAStar, NoUrl, FALSE, FALSE, <<>>) >>

StepLists ==
  {l \in {StepsSingle, StepsSubs, StepsTwo, StepsSame, StepsEmpty, StepsThree} :
     Len(l) <= MaxSteps}

\* hasCallback: onOnboardingComplete is given.  onNavigate: the provider is
\* given a navigation callback (otherwise it assigns window.location.href).
Configs ==
  {[steps |-> l, inOrder |-> o, hasCallback |-> (l # StepsSame),
    onNavigate |-> (l # StepsEmpty)] :
     l \in StepLists, o \in BOOLEAN}


-----------------------------------------------------------------------------
(* Helpers for the JavaScript the handlers use *)

NumSteps == Len(config.steps)

\* config.steps[i] is not undefined
StepDefined(i) == i \in 0..(NumSteps - 1)

StepAt(i) == config.steps[i + 1]

\* step.subSteps[j] is not undefined
SubDefined(step, j) == j \in 0..(Len(step.subSteps) - 1)

\* completedSteps.includes(i)
Includes(seq, i) == \E n \in 1..Len(seq) : seq[n] = i

\* A completion that appends without looking; C36_CompletedOnce tells it
\* from AddCompleted.
AddCompletedAgain(seq, i) == Append(seq, i)

\* completedSteps.includes(i) ? completedSteps : [...completedSteps, i]
AddCompleted(seq, i) == IF Includes(seq, i) THEN seq ELSE Append(seq, i)

\* subStepProgress[i] ?? null
Progress(sp, i) == IF i \in DOMAIN sp THEN sp[i] ELSE Null

\* { ...subStepProgress, [i]: v }
SetProgress(sp, i, v) == [x \in (DOMAIN sp) \cup {i} |-> IF x = i THEN v ELSE sp[x]]

\* a || b on URLs
OrUrl(a, b) == IF a # NoUrl THEN a ELSE b

\* Array.prototype.findIndex over the step indices that satisfy the predicate
FindIndex(S) == IF S = {} THEN -1 ELSE CHOOSE i \in S : \A j \in S : i <= j

\* the data-onboarding-id a click is aimed at: a step's own, or a sub-step's
StepTarget(i) == <<i>>
SubTarget(i, j) == <<i, j>>

\* A handleNavigation that calls onNavigate and assigns location.href as
\* well; C11_OneNavigation tells it from handleNavigation.
handleNavigationBoth(link) ==
  IF link = NoUrl THEN <<>>
  ELSE IF config.onNavigate
       THEN << [url |-> link, via |-> "onNavigate"], [url |-> link, via |-> "href"] >>
       ELSE << [url |-> link, via |-> "href"] >>

\* handleNavigation(link): nothing is requested for a missing or empty link;
\* otherwise onNavigate is called when given, else location.href is assigned.
handleNavigation(link) ==
  IF link = NoUrl THEN <<>>
  ELSE << [url |-> link, via |-> IF config.onNavigate THEN "onNavigate" ELSE "href"] >>

\* What one run of a state updater did: the record it returned, the
\* navigation it requested, the completion callbacks and inline clicks it
\* made, whether it called setIsTransitioning(true), whether it wrote the
\* cookie itself, and whether it threw.
Outcome(st, nav, cb, clicks, trans, wrote) ==
  [st |-> st, nav |-> nav, cb |-> cb, clicks |-> clicks, trans |-> trans,
   wrote |-> wrote, crash |-> FALSE]

\* The updater threw a TypeError (a property of undefined was read).
Throws(prev, clicks, trans) ==
  [st |-> prev, nav |-> <<>>, cb |-> 0, clicks |-> clicks, trans |-> trans,
   wrote |-> FALSE, crash |-> TRUE]

\* if (currentConfig.onOnboardingComplete) currentConfig.onOnboardingComplete()
Complete == IF config.hasCallback THEN 1 ELSE 0

-----------------------------------------------------------------------------
(* URL matcher *)

\* The rule compiled to ^pattern$ with every other character literal and
\* each * standing for .* (any characters; a pathname holds no line
\* terminator, the one kind of character . leaves out).
RECURSIVE Glob(_, _)
Glob(rule, path) ==
  IF rule = <<>> THEN path = <<>>
  ELSE IF Head(rule) = "*"
       THEN \E n \in 0..Len(path) : Glob(Tail(rule), SubSeq(path, n + 1, Len(path)))
       ELSE path # <<>> /\ Head(path) = Head(rule) /\ Glob(Tail(rule), Tail(path))

\* An isMatch whose pattern is not anchored at the end; C24_UrlMatcher tells
\* it from isMatch.
isMatchPrefix(step, path) ==
  IF step.urlMatch = NoUrl \/ path = <<>> THEN FALSE
  ELSE \E n \in 0..Len(path) : Glob(step.urlMatch, SubSeq(path, 1, n))

isMatch(step, path) ==
  IF step.urlMatch = NoUrl \/ path = <<>> THEN FALSE
  ELSE IF \E n \in 1..Len(step.urlMatch) : step.urlMatch[n] = "*"
       THEN Glob(step.urlMatch, path)
       ELSE path = step.urlMatch

-----------------------------------------------------------------------------
(* Progress record *)

\* getInitialState with no persisted record: step 0, no sub-step, active,
\* nothing completed, empty resume map.
ZeroState ==
  [currentStepIndex |-> 0, currentSubStepIndex |-> Null, isActive |-> TRUE,
   completedSteps |-> <<>>, subStepProgress |-> <<>>]

\* The fields of the progress record.
Fields == {"currentStepIndex", "currentSubStepIndex", "isActive",
           "completedSteps", "subStepProgress"}

\* A cookie text is [kind, value].  kind "object": the text parses to an
\* object (or an array) and value holds the fields it has, a field that is
\* null counting as missing.  Any other kind has an empty value: "garbage"
\* does not parse, "scalar" parses to a number, string or boolean, "null"
\* parses to null.
NoValue == [f \in {} |-> 0]
OtherKinds == {"garbage", "scalar", "null"}

\* JSON.stringify(state)
JSONstringify(st) == [kind |-> "object", value |-> st]

\* parsed.f ?? the default of f
Field(value, f) == IF f \in DOMAIN value THEN value[f] ELSE ZeroState[f]

\* A getInitialState that falls back to the zero-value record as soon as
\* one field is missing; C13_InitialState tells it from getInitialState.
getInitialStateWhole(saved) ==
  IF saved = <<>> THEN ZeroState
  ELSE IF saved[1].kind = "object" /\ DOMAIN saved[1].value = Fields
       THEN saved[1].value
       ELSE ZeroState

\* getInitialState: the zero-value record when the cookie is absent, does not
\* parse (the exception is caught) or parses to something that is not an
\* object; otherwise the parsed fields, each missing one defaulted.
getInitialState(saved) ==
  IF saved = <<>> THEN ZeroState
  ELSE IF saved[1].kind # "object" THEN ZeroState
       ELSE [currentStepIndex |-> Field(saved[1].value, "currentStepIndex"),
             currentSubStepIndex |-> Field(saved[1].value, "currentSubStepIndex"),
             isActive |-> Field(saved[1].value, "isActive"),
             completedSteps |-> Field(saved[1].value, "completedSteps"),
             subStepProgress |-> Field(saved[1].value, "subStepProgress")]

isFirstStep(st) == st.currentStepIndex = 0 /\ st.currentSubStepIndex = Null

isLastStep(st) ==
  LET cur == st.currentStepIndex
      hasSubSteps == StepDefined(cur) /\ StepAt(cur).hasSubs
                       /\ Len(StepAt(cur).subSteps) > 0
  IN  IF cur = NumSteps - 1
      THEN IF hasSubSteps
           THEN st.currentSubStepIndex = Len(StepAt(cur).subSteps) - 1
           ELSE TRUE
      ELSE FALSE

\* The step or sub-step the overlay shows; NoStep when it shows nothing.
NoStep == <<>>

\* A currentStep that shows the step whatever the path is;
\* C15_FreeOrderNoMatch tells it from currentStep.
currentStepAnyPath(st, path, transitioning) ==
  LET cur == st.currentStepIndex
      sub == st.currentSubStepIndex
  IN  IF ~StepDefined(cur) THEN NoStep
      ELSE IF sub # Null /\ StepAt(cur).hasSubs /\ SubDefined(StepAt(cur), sub)
           THEN SubTarget(cur, sub)
           ELSE StepTarget(cur)

currentStep(st, path, transitioning) ==
  LET cur == st.currentStepIndex
      sub == st.currentSubStepIndex
  IN  IF ~StepDefined(cur) THEN NoStep
      ELSE IF sub # Null /\ StepAt(cur).hasSubs
           THEN IF isMatch(StepAt(cur), path) \/ transitioning
                THEN IF SubDefined(StepAt(cur), sub) THEN SubTarget(cur, sub)
                     ELSE StepTarget(cur)
                ELSE NoStep
           ELSE IF ~isMatch(StepAt(cur), path) THEN NoStep ELSE StepTarget(cur)

-----------------------------------------------------------------------------
(* Transition operations: the state updaters *)

\* nextStep, sub-step branch: enter the next sub-step of the current step.
nextSubStep(prev, clicks) ==
  LET cur == prev.currentStepIndex
      sub == prev.currentSubStepIndex
      stepObj == StepAt(cur)
      active == IF sub # Null THEN stepObj.subSteps[sub + 1] ELSE stepObj
      nextSubIndex == IF sub = Null THEN 0 ELSE sub + 1
  IN  IF active.navigate = NoUrl /\ ~SubDefined(stepObj, nextSubIndex)
      THEN Throws(prev, clicks, TRUE)
      ELSE LET navTo == OrUrl(active.navigate,
                              IF SubDefined(stepObj, nextSubIndex)
                              THEN stepObj.subSteps[nextSubIndex + 1].navigate
                              ELSE NoUrl)
               navTo2 == IF navTo = NoUrl /\ sub = Null THEN stepObj.navigate ELSE navTo
           IN  Outcome([prev EXCEPT !.currentSubStepIndex = nextSubIndex,
                                    !.subStepProgress =
                                       SetProgress(prev.subStepProgress, cur, nextSubIndex)],
                       handleNavigation(navTo2), 0, clicks, TRUE, TRUE)

\* nextStep, the current step is finished and a next step exists.
nextMainStep(prev, active, clicks) ==
  LET cur == prev.currentStepIndex
      sub == prev.currentSubStepIndex
      nextIndex == cur + 1
      nextStepObj == StepAt(nextIndex)
      targetSubStepIndex == Progress(prev.subStepProgress, nextIndex)
      targetNav == IF targetSubStepIndex # Null /\ nextStepObj.hasSubs
                      /\ SubDefined(nextStepObj, targetSubStepIndex)
                   THEN nextStepObj.subSteps[targetSubStepIndex + 1].navigate
                   ELSE NoUrl
      navTo == OrUrl(active.navigate, OrUrl(nextStepObj.navigate, targetNav))
  IN  Outcome([prev EXCEPT !.currentStepIndex = nextIndex,
                           !.currentSubStepIndex = targetSubStepIndex,
                           !.completedSteps = AddCompleted(prev.completedSteps, cur),
                           !.subStepProgress = SetProgress(prev.subStepProgress, cur, sub)],
              handleNavigation(navTo), 0, clicks, FALSE, TRUE)

\* nextStep, the current step is finished and it is the last one.
nextFinal(prev, active, clicks) ==
  LET cur == prev.currentStepIndex
      sub == prev.currentSubStepIndex
      navTo == OrUrl(active.navigate, StepAt(cur).navigate)
  IN  Outcome([prev EXCEPT !.isActive = FALSE,
                           !.completedSteps = AddCompleted(prev.completedSteps, cur),
                           !.subStepProgress = SetProgress(prev.subStepProgress, cur, sub)],
              handleNavigation(navTo), Complete, clicks, FALSE, TRUE)

nextStep(prev) ==
  LET cur == prev.currentStepIndex
      sub == prev.currentSubStepIndex
  IN  IF ~StepDefined(cur) THEN Outcome(prev, <<>>, 0, <<>>, FALSE, FALSE)
      ELSE
        LET stepObj == StepAt(cur)
            inSub == sub # Null /\ stepObj.hasSubs
        IN  IF inSub /\ ~SubDefined(stepObj, sub) THEN Throws(prev, <<>>, FALSE)
            ELSE
              LET active == IF inSub THEN stepObj.subSteps[sub + 1] ELSE stepObj
                  clicks == IF active.click
                            THEN << IF inSub THEN SubTarget(cur, sub) ELSE StepTarget(cur) >>
                            ELSE <<>>
              IN  IF stepObj.hasSubs /\ (sub = Null \/ sub < Len(stepObj.subSteps) - 1)
                  THEN nextSubStep(prev, clicks)
                  ELSE IF cur < NumSteps - 1
                       THEN nextMainStep(prev, active, clicks)
                       ELSE nextFinal(prev, active, clicks)

\* A first branch that moves one sub-step back without writing the resume
\* map; C37_ResumeEntryIsCurrent tells it from prevSubStep.
prevSubStepNoProgress(prev) ==
  LET cur == prev.currentStepIndex
      nextSubIndex == prev.currentSubStepIndex - 1
  IN  IF ~StepDefined(cur) \/ ~StepAt(cur).hasSubs \/ ~SubDefined(StepAt(cur), nextSubIndex)
      THEN Throws(prev, <<>>, FALSE)
      ELSE Outcome([prev EXCEPT !.currentSubStepIndex = nextSubIndex],
                   handleNavigation(StepAt(cur).subSteps[nextSubIndex + 1].navigate),
                   0, <<>>, FALSE, TRUE)

\* prevStep, first branch: one sub-step back inside the current step.
prevSubStep(prev) ==
  LET cur == prev.currentStepIndex
      nextSubIndex == prev.currentSubStepIndex - 1
  IN  IF ~StepDefined(cur) \/ ~StepAt(cur).hasSubs \/ ~SubDefined(StepAt(cur), nextSubIndex)
      THEN Throws(prev, <<>>, FALSE)
      ELSE Outcome([prev EXCEPT !.currentSubStepIndex = nextSubIndex,
                                !.subStepProgress =
                                   SetProgress(prev.subStepProgress, cur, nextSubIndex)],
                   handleNavigation(StepAt(cur).subSteps[nextSubIndex + 1].navigate),
                   0, <<>>, FALSE, TRUE)

\* prevStep, second branch: from sub-step 0 out to the owning step.
prevToParent(prev) ==
  LET cur == prev.currentStepIndex
  IN  IF ~StepDefined(cur) THEN Throws(prev, <<>>, FALSE)
      ELSE Outcome([prev EXCEPT !.currentSubStepIndex = Null,
                                !.subStepProgress =
                                   SetProgress(prev.subStepProgress, cur, Null)],
                   handleNavigation(StepAt(cur).navigate), 0, <<>>, FALSE, TRUE)

\* prevStep, third branch: to the previous step, at its resume sub-step.
prevMainStep(prev) ==
  LET prevIndex == prev.currentStepIndex - 1
  IN  IF ~StepDefined(prevIndex) THEN Throws(prev, <<>>, FALSE)
      ELSE
        LET prevStepObj == StepAt(prevIndex)
            recorded == Progress(prev.subStepProgress, prevIndex)
            prevSubStepIndex ==
              IF recorded # Null THEN recorded
              ELSE IF prevStepObj.hasSubs THEN Len(prevStepObj.subSteps) - 1 ELSE Null
            subNav == IF prevSubStepIndex # Null /\ prevStepObj.hasSubs
                         /\ SubDefined(prevStepObj, prevSubStepIndex)
                      THEN prevStepObj.subSteps[prevSubStepIndex + 1].navigate
                      ELSE NoUrl
        IN  Outcome([prev EXCEPT !.currentStepIndex = prevIndex,
                                 !.currentSubStepIndex = prevSubStepIndex,
                                 !.isActive = TRUE,
                                 !.subStepProgress =
                                    SetProgress(prev.subStepProgress, prevIndex,
                                                prevSubStepIndex)],
                    handleNavigation(OrUrl(prevStepObj.navigate, subNav)),
                    0, <<>>, FALSE, TRUE)

prevStep(prev) ==
  IF prev.currentSubStepIndex # Null /\ prev.currentSubStepIndex > 0
  THEN prevSubStep(prev)
  ELSE IF prev.currentStepIndex > 0 /\ prev.currentSubStepIndex = 0
       THEN prevToParent(prev)
       ELSE IF prev.currentStepIndex > 0
            THEN prevMainStep(prev)
            ELSE Outcome(prev, <<>>, 0, <<>>, FALSE, FALSE)

\* A finish that also marks the current step completed, as the last
\* nextStep does; C7_FinishFrame tells it from finish.
finishCompleting(prev) ==
  Outcome([prev EXCEPT !.isActive = FALSE,
                       !.completedSteps =
                          AddCompleted(prev.completedSteps, prev.currentStepIndex)],
          <<>>, Complete, <<>>, FALSE, FALSE)

\* finish: the updater clears isActive; the callback is called after it.
finish(prev) ==
  Outcome([prev EXCEPT !.isActive = FALSE], <<>>, Complete, <<>>, FALSE, FALSE)

\* A goToStep that stores the indices without reading the target step, so
\* that no step index is rejected; C1_StepIndexValid tells it from goToStep.
goToStepUnguarded(prev, stepIndex, subStepIndex) ==
  Outcome([prev EXCEPT !.currentStepIndex = stepIndex,
                       !.currentSubStepIndex = subStepIndex,
                       !.isActive = TRUE,
                       !.subStepProgress =
                          SetProgress(prev.subStepProgress, stepIndex, subStepIndex)],
          <<>>, 0, <<>>, FALSE, TRUE)

\* A goToStep that moves without recording the resume sub-step of the
\* target; C9_GoToValidStep tells it from goToStep.
goToStepNoProgress(prev, stepIndex, subStepIndex) ==
  IF ~StepDefined(stepIndex) THEN Throws(prev, <<>>, FALSE)
  ELSE Outcome([prev EXCEPT !.currentStepIndex = stepIndex,
                            !.currentSubStepIndex = subStepIndex,
                            !.isActive = TRUE],
               handleNavigation(StepAt(stepIndex).navigate), 0, <<>>, FALSE, TRUE)

\* goToStep: reads the target step (a TypeError when there is none), then
\* stores both indices, reactivates and records the resume sub-step.
goToStep(prev, stepIndex, subStepIndex) ==
  IF ~StepDefined(stepIndex) THEN Throws(prev, <<>>, FALSE)
  ELSE
    LET nextStepObj == StepAt(stepIndex)
        targetNav == IF subStepIndex # Null /\ nextStepObj.hasSubs
                        /\ SubDefined(nextStepObj, subStepIndex)
                     THEN nextStepObj.subSteps[subStepIndex + 1].navigate
                     ELSE NoUrl
    IN  Outcome([prev EXCEPT !.currentStepIndex = stepIndex,
                             !.currentSubStepIndex = subStepIndex,
                             !.isActive = TRUE,
                             !.subStepProgress =
                                SetProgress(prev.subStepProgress, stepIndex, subStepIndex)],
                handleNavigation(OrUrl(nextStepObj.navigate, targetNav)),
                0, <<>>, FALSE, TRUE)

-----------------------------------------------------------------------------
(* Click replay: the list of targets simulateClicks collects before it
   clicks them one by one, 500 ms apart *)

\* for (let i = 0; i < limit; i++) if (step.subSteps[i].click) actions.push(...)
\* from sub-step j on, for step number i.
RECURSIVE SubStepClicks(_, _, _)
SubStepClicks(i, j, limit) ==
  IF j >= limit THEN <<>>
  ELSE (IF StepAt(i).subSteps[j + 1].click THEN << SubTarget(i, j) >> ELSE <<>>)
         \o SubStepClicks(i, j + 1, limit)

\* collectStepClicks(step, upToSubStep) for step number i; upToSubStep is -1
\* when the argument is left out.
collectStepClicks(i, upToSubStep) ==
  IF upToSubStep = Null THEN <<>>
  ELSE (IF StepAt(i).click THEN << StepTarget(i) >> ELSE <<>>)
         \o (IF StepAt(i).hasSubs
             THEN SubStepClicks(i, 0, IF upToSubStep = -1
                                      THEN Len(StepAt(i).subSteps) ELSE upToSubStep)
             ELSE <<>>)

\* The loop of simulateClicks over the steps i..stepIndex.
RECURSIVE CollectFrom(_, _, _, _)
CollectFrom(i, stepIndex, subStepIndex, path) ==
  IF i > stepIndex THEN <<>>
  ELSE (IF StepDefined(i) /\ isMatch(StepAt(i), path)
        THEN IF i < stepIndex THEN collectStepClicks(i, -1)
             ELSE IF subStepIndex # Null THEN collectStepClicks(i, subStepIndex)
                  ELSE <<>>
        ELSE <<>>)
         \o CollectFrom(i + 1, stepIndex, subStepIndex, path)

\* A simulateClicks that also collects the clicks of the target step when
\* it is targeted without a sub-step; C20_ReplayAtStep tells it from
\* simulateClicks.
simulateClicksWithTarget(stepIndex, subStepIndex, path) ==
  CollectFrom(0, stepIndex, IF subStepIndex = Null THEN 0 ELSE subStepIndex, path)

\* simulateClicks(stepIndex, subStepIndex) on the path of the page.
simulateClicks(stepIndex, subStepIndex, path) ==
  CollectFrom(0, stepIndex, subStepIndex, path)

-----------------------------------------------------------------------------
(* The effects that replay clicks after a commit *)

\* `${currentPath}-${state.currentStepIndex}-${state.currentSubStepIndex}`:
\* no path of the model holds a '-', so the text and the triple determine
\* each other.
simKey(st, path) == <<path, st.currentStepIndex, st.currentSubStepIndex>>

\* The effect on [currentPath]: tracking is reset when the path differs
\* from the one last simulated on.
pathResetEffect(s, path) ==
  IF path # s.lastPathForSimulation
  THEN [s EXCEPT !.lastPathForSimulation = path, !.lastSimulatedKey = <<>>]
  ELSE s

\* simulateClicks was invoked for key and collected actions: a chain of
\* timers is started unless the list is empty.
Invoked(s, key, actions) ==
  [s EXCEPT !.timers = IF actions = <<>> THEN @ ELSE Append(@, actions),
            !.repeat = IF s.lastInvoked # key THEN "none"
                       ELSE IF s.pathKept THEN "samePath" ELSE "pathChanged",
            !.lastInvoked = key,
            !.pathKept = TRUE,
            !.invocations = @ + 1,
            !.scheduled = @ \o actions]

\* A simulation effect that looks neither at lastSimulatedKey nor at
\* wasInternalAction; C21_NoRepeatOnSamePath tells it from simulationEffect.
simulationEffectNoDedup(s, st, path) ==
  IF ~st.isActive THEN s
  ELSE LET t == [s EXCEPT !.wasInternalAction = FALSE] IN
       IF StepDefined(st.currentStepIndex)
          /\ isMatch(StepAt(st.currentStepIndex), path)
          /\ config.simulateClicksOnNavigate
       THEN Invoked([t EXCEPT !.lastSimulatedKey = simKey(st, path),
                              !.lastPathForSimulation = path],
                    simKey(st, path),
                    simulateClicks(st.currentStepIndex, st.currentSubStepIndex, path))
       ELSE t

\* The simulation effect, run with record st on path (isMounted holds from
\* the first render on, since ssr is off).
simulationEffect(s, st, path) ==
  IF ~st.isActive THEN s
  ELSE IF s.lastSimulatedKey = simKey(st, path) THEN s
  ELSE LET internal == s.wasInternalAction
           t == [s EXCEPT !.wasInternalAction = FALSE]
       IN IF internal /\ path = t.lastPathForSimulation
          THEN [t EXCEPT !.lastSimulatedKey = simKey(st, path)]
          ELSE IF StepDefined(st.currentStepIndex)
                  /\ isMatch(StepAt(st.currentStepIndex), path)
                  /\ config.simulateClicksOnNavigate
               THEN Invoked([t EXCEPT !.lastSimulatedKey = simKey(st, path),
                                      !.lastPathForSimulation = path],
                            simKey(st, path),
                            simulateClicks(st.currentStepIndex,
                                           st.currentSubStepIndex, path))
               ELSE t

\* The dependencies of the simulation effect differ between two renders.
DepsChanged(from, fromPath, st, path) ==
  \/ path # fromPath
  \/ st.currentStepIndex # from.currentStepIndex
  \/ st.currentSubStepIndex # from.currentSubStepIndex
  \/ st.isActive # from.isActive

\* The effects after the render with record st on path, the render before
\* having had record from on fromPath: the reset effect is declared before
\* the simulation effect and so runs first.
Commit(s, from, fromPath, st, path) ==
  LET a == IF path # fromPath
           THEN pathResetEffect([s EXCEPT !.pathKept = FALSE], path)
           ELSE s
  IN IF DepsChanged(from, fromPath, st, path) THEN simulationEffect(a, st, path)
     ELSE a

-----------------------------------------------------------------------------
(* Reconciliation: the updater of the effect that runs on mount and on every
   change of currentPath *)

\* A free-order pass that takes the first matching step whether completed
\* or not; C14_FreeOrderSwitch tells it from reconcileFree.
reconcileFreeAnyStep(prev, path) ==
  LET matchedIndex == FindIndex({i \in 0..(NumSteps - 1) : isMatch(StepAt(i), path)})
  IN  IF matchedIndex # -1 /\ matchedIndex # prev.currentStepIndex
      THEN Outcome([prev EXCEPT !.currentStepIndex = matchedIndex,
                                !.currentSubStepIndex =
                                   Progress(prev.subStepProgress, matchedIndex)],
                   <<>>, 0, <<>>, FALSE, FALSE)
      ELSE Outcome(prev, <<>>, 0, <<>>, FALSE, FALSE)

\* A free-order pass that switches without restoring the resume sub-step;
\* C25_DetourRestores tells it from reconcileFree.
reconcileFreeNoResume(prev, path) ==
  LET matchedIndex ==
        FindIndex({i \in 0..(NumSteps - 1) :
                     isMatch(StepAt(i), path) /\ ~Includes(prev.completedSteps, i)})
  IN  IF matchedIndex # -1 /\ matchedIndex # prev.currentStepIndex
      THEN Outcome([prev EXCEPT !.currentStepIndex = matchedIndex,
                                !.currentSubStepIndex = Null],
                   <<>>, 0, <<>>, FALSE, FALSE)
      ELSE Outcome(prev, <<>>, 0, <<>>, FALSE, FALSE)

\* The free-order pass: switch to the first step that matches the path and
\* is not completed, at its resume sub-step.
reconcileFree(prev, path) ==
  LET matchedIndex ==
        FindIndex({i \in 0..(NumSteps - 1) :
                     isMatch(StepAt(i), path) /\ ~Includes(prev.completedSteps, i)})
  IN  IF matchedIndex # -1 /\ matchedIndex # prev.currentStepIndex
      THEN Outcome([prev EXCEPT !.currentStepIndex = matchedIndex,
                                !.currentSubStepIndex =
                                   Progress(prev.subStepProgress, matchedIndex)],
                   <<>>, 0, <<>>, FALSE, FALSE)
      ELSE Outcome(prev, <<>>, 0, <<>>, FALSE, FALSE)

\* A strict-order pass that switches to the first uncompleted step without
\* restoring its resume sub-step; C17_StrictOrderStep tells it from
\* reconcileInOrder.
reconcileInOrderNoResume(prev, path) ==
  LET firstUnfinishedIndex ==
        FindIndex({i \in 0..(NumSteps - 1) : ~Includes(prev.completedSteps, i)})
  IN  IF firstUnfinishedIndex = -1 THEN Outcome(prev, <<>>, 0, <<>>, FALSE, FALSE)
      ELSE
        LET step == StepAt(firstUnfinishedIndex)
            nextState ==
              IF firstUnfinishedIndex # prev.currentStepIndex
              THEN [prev EXCEPT !.currentStepIndex = firstUnfinishedIndex,
                                !.currentSubStepIndex = Null]
              ELSE prev
            nav == IF ~isMatch(step, path) /\ step.navigate # NoUrl /\ path # step.navigate
                   THEN handleNavigation(step.navigate)
                   ELSE <<>>
        IN  Outcome(nextState, nav, 0, <<>>, FALSE, FALSE)

\* A strict-order pass that navigates whenever the path does not match the
\* step, also when the path already is the step's navigate URL;
\* C33_ReconcileSettles tells it from reconcileInOrder.
reconcileInOrderAlways(prev, path) ==
  LET firstUnfinishedIndex ==
        FindIndex({i \in 0..(NumSteps - 1) : ~Includes(prev.completedSteps, i)})
  IN  IF firstUnfinishedIndex = -1 THEN Outcome(prev, <<>>, 0, <<>>, FALSE, FALSE)
      ELSE
        LET step == StepAt(firstUnfinishedIndex)
            nextState ==
              IF firstUnfinishedIndex # prev.currentStepIndex
              THEN [prev EXCEPT !.currentStepIndex = firstUnfinishedIndex,
                                !.currentSubStepIndex =
                                   Progress(prev.subStepProgress, firstUnfinishedIndex)]
              ELSE prev
            nav == IF ~isMatch(step, path) /\ step.navigate # NoUrl
                   THEN handleNavigation(step.navigate)
                   ELSE <<>>
        IN  Outcome(nextState, nav, 0, <<>>, FALSE, FALSE)

\* The strict-order pass: switch to the first uncompleted step, at its resume
\* sub-step, and navigate to its navigate URL when the path does not match.
reconcileInOrder(prev, path) ==
  LET firstUnfinishedIndex ==
        FindIndex({i \in 0..(NumSteps - 1) : ~Includes(prev.completedSteps, i)})
  IN  IF firstUnfinishedIndex = -1 THEN Outcome(prev, <<>>, 0, <<>>, FALSE, FALSE)
      ELSE
        LET step == StepAt(firstUnfinishedIndex)
            nextState ==
              IF firstUnfinishedIndex # prev.currentStepIndex
              THEN [prev EXCEPT !.currentStepIndex = firstUnfinishedIndex,
                                !.currentSubStepIndex =
                                   Progress(prev.subStepProgress, firstUnfinishedIndex)]
              ELSE prev
            nav == IF ~isMatch(step, path) /\ step.navigate # NoUrl /\ path # step.navigate
                   THEN handleNavigation(step.navigate)
                   ELSE <<>>
        IN  Outcome(nextState, nav, 0, <<>>, FALSE, FALSE)

reconcile(prev, path) ==
  IF ~prev.isActive THEN Outcome(prev, <<>>, 0, <<>>, FALSE, FALSE)
  ELSE IF ~config.inOrder THEN reconcileFree(prev, path)
       ELSE reconcileInOrder(prev, path)

-----------------------------------------------------------------------------
(* The state machine *)

Op(name, a, b) == [op |-> name, step |-> a, sub |-> b]

Position(st) == <<st.currentStepIndex, st.currentSubStepIndex>>

NoWalk == [phase |-> "idle", origin |-> <<0, Null>>, n |-> 0, m |-> 0]

\* Click replay before anything happened.  The first three fields are the
\* provider's refs, timers holds the pending chains of performClick (each the
\* targets it has still to click) and tornDown says the provider was
\* unmounted.  The rest is bookkeeping: the key simulateClicks was last
\* invoked for, whether the path stayed the same since, how the last
\* invocation repeats the one before it, how often the last operation invoked
\* simulateClicks and the targets that scheduled, and the targets the last
\* nextStep clicked inline.
NoSim ==
  [lastSimulatedKey |-> <<>>, lastPathForSimulation |-> NoUrl,
   wasInternalAction |-> FALSE, timers |-> <<>>, tornDown |-> FALSE,
   lastInvoked |-> <<>>, pathKept |-> TRUE, repeat |-> "none",
   invocations |-> 0, scheduled |-> <<>>, inline |-> <<>>]

Init ==
  /\ config \in Configs
  /\ state = ZeroState
  /\ cookie = <<>>
  /\ seenCookie = <<>>
  /\ currentPath \in Paths
  /\ isTransitioning = FALSE
  /\ mounted = FALSE
  /\ crashed = FALSE
  /\ lastOp = Op("construct", Null, Null)
  /\ pre = ZeroState
  /\ navReq = <<>>
  /\ callbacks = 0
  /\ clicked = <<>>
  /\ entered = {}
  /\ walk = NoWalk
  /\ sim = NoSim
  /\ returned = Null

\* The updater ran on record from and produced outcome r; then the persist
\* effect wrote the new record to the cookie (unless the updater threw).
\* When the updater navigated, the cookie held the new record at that moment
\* only if the updater had written it itself (Cookies.set before
\* handleNavigation); the persist effect runs after the updater.
Apply(op, from, r) ==
  /\ lastOp' = op
  /\ pre' = from
  /\ state' = r.st
  /\ cookie' = IF r.crash THEN cookie ELSE << JSONstringify(r.st) >>
  /\ seenCookie' = IF r.crash \/ (r.nav # <<>> /\ ~r.wrote) THEN cookie
                   ELSE << JSONstringify(r.st) >>
  /\ navReq' = r.nav
  /\ callbacks' = r.cb
  /\ clicked' = r.clicks
  /\ crashed' = r.crash
  /\ UNCHANGED <<config, returned>>

Running == mounted /\ ~crashed

\* A call of the context's nextStep().
CallNextStep ==
  /\ Running
  /\ Apply(Op("nextStep", Null, Null), state, nextStep(state))
  /\ isTransitioning' = (isTransitioning \/ nextStep(state).trans)
  /\ UNCHANGED <<currentPath, mounted>>

\* A call of the context's prevStep().
CallPrevStep ==
  /\ Running
  /\ Apply(Op("prevStep", Null, Null), state, prevStep(state))
  /\ UNCHANGED <<currentPath, isTransitioning, mounted>>

\* First render committed: the reconcile effect and the persist effect run.
Mount ==
  /\ ~mounted
  /\ mounted' = TRUE
  /\ Apply(Op("mount", Null, Null), state, reconcile(state, currentPath))
  /\ UNCHANGED <<currentPath, isTransitioning, entered, walk, sim>>

NextStep == CallNextStep /\ UNCHANGED <<entered, walk, sim>>

PrevStep == CallPrevStep /\ UNCHANGED <<entered, walk, sim>>

Finish ==
  /\ Running
  /\ Apply(Op("finish", Null, Null), state, finish(state))
  /\ UNCHANGED <<currentPath, isTransitioning, mounted, entered, walk, sim>>

\* The sub-step arguments goToStep is tried with, for a step argument: null,
\* every index of the step's sub-step list, the index before the first and
\* the index after the last.
SubArgs(stepIndex) ==
  {Null} \cup (-1..(IF StepDefined(stepIndex) THEN Len(StepAt(stepIndex).subSteps) ELSE 0))

GoToStep ==
  /\ Running
  /\ \E stepIndex \in -1..NumSteps :
       \E subStepIndex \in SubArgs(stepIndex) :
         Apply(Op("goToStep", stepIndex, subStepIndex), state,
               goToStep(state, stepIndex, subStepIndex))
  /\ UNCHANGED <<currentPath, isTransitioning, mounted, entered, walk, sim>>

\* The overlay's Finish button: rendered in place of Next while the overlay
\* is shown and isLastStep holds; its handler calls finish().
ClickFinish ==
  /\ Running
  /\ state.isActive
  /\ currentStep(state, currentPath, isTransitioning) # NoStep
  /\ isLastStep(state)
  /\ Apply(Op("clickFinish", Null, Null), state, finish(state))
  /\ UNCHANGED <<currentPath, isTransitioning, mounted, entered, walk, sim>>

\* The browser's location changes (the user, the host application, or a
\* navigation the engine requested) and handlePathChange sees the new
\* pathname: currentPath changes and the reconcile effect runs again.
PathChange ==
  /\ Running
  /\ \E p \in Paths :
       /\ p # currentPath
       /\ currentPath' = p
       /\ Apply(Op("pathChange", Null, Null), state, reconcile(state, p))
  /\ UNCHANGED <<isTransitioning, mounted, entered, walk, sim>>

\* setTimeout(() => setIsTransitioning(false), 1000)
TransitionTimeout ==
  /\ Running
  /\ isTransitioning
  /\ isTransitioning' = FALSE
  /\ UNCHANGED <<config, returned, state, cookie, seenCookie, currentPath, mounted, crashed,
                 lastOp, pre, navReq, callbacks, clicked, entered, walk, sim>>

\* The page is loaded again at the same path: the provider is constructed
\* from the cookie and mounts.
Reload ==
  /\ mounted
  /\ Apply(Op("reload", Null, Null), getInitialState(cookie),
           reconcile(getInitialState(cookie), currentPath))
  /\ isTransitioning' = FALSE
  /\ UNCHANGED <<currentPath, mounted, entered, walk, sim>>

Next ==
  \/ Mount
  \/ NextStep
  \/ PrevStep
  \/ Finish
  \/ GoToStep
  \/ ClickFinish
  \/ PathChange
  \/ TransitionTimeout
  \/ Reload

Spec == Init /\ [][Next]_vars

-----------------------------------------------------------------------------
(* Walks: only nextStep, prevStep and reconciliation on path changes, with
   the forward moves recorded; and, from any position so reached, n calls of
   nextStep followed by n calls of prevStep with nothing in between. *)

Idle == walk.phase = "idle"

\* The positions entered by forward moves, after nextStep took record from
\* to record to: a move that lands on a sub-step has entered it.
EnteredAfter(from, to) ==
  IF to.currentSubStepIndex # Null /\ Position(to) # Position(from)
  THEN entered \cup {Position(to)}
  ELSE entered

\* nextStep, recording the sub-step position it moved into (if any).
WalkNextStep ==
  /\ Idle
  /\ CallNextStep
  /\ entered' = EnteredAfter(state, state')
  /\ UNCHANGED <<walk, sim>>

WalkPrevStep == Idle /\ PrevStep

WalkPathChange == Idle /\ PathChange

\* The walk starts here: the position is remembered.
StartWalk ==
  /\ Idle
  /\ Running
  /\ state.isActive
  /\ walk' = [phase |-> "forward", origin |-> Position(state), n |-> 0, m |-> 0]
  /\ UNCHANGED <<engine, entered, sim>>

WalkForward ==
  /\ walk.phase = "forward"
  /\ walk.n < MaxWalk
  /\ CallNextStep
  /\ walk' = [walk EXCEPT !.n = walk.n + 1]
  /\ entered' = EnteredAfter(state, state')
  /\ UNCHANGED sim

WalkBack ==
  /\ walk.phase \in {"forward", "back"}
  /\ walk.m < walk.n
  /\ CallPrevStep
  /\ walk' = [walk EXCEPT !.phase = "back", !.m = walk.m + 1]
  /\ UNCHANGED <<entered, sim>>

WalkNext ==
  \/ Mount
  \/ WalkNextStep
  \/ WalkPrevStep
  \/ WalkPathChange
  \/ TransitionTimeout
  \/ StartWalk
  \/ WalkForward
  \/ WalkBack

SpecWalk == Init /\ [][WalkNext]_vars

-----------------------------------------------------------------------------
(* Restoration: the page loads with some cookie left behind, the provider is
   constructed from it (useState(getInitialState)) and mounts; afterwards
   the path may change. *)

\* The records a cookie may hold.
SavedRecords ==
  [currentStepIndex : 0..1, currentSubStepIndex : {Null, 0}, isActive : BOOLEAN,
   completedSteps : {<<>>, <<0>>}, subStepProgress : {<<>>, 0 :> 0}]

\* The cookie texts: an object with any subset of the fields of such a
\* record, or a text of another kind.
SavedTexts ==
  {[kind |-> "object", value |-> [f \in D |-> st[f]]] :
      st \in SavedRecords, D \in SUBSET Fields}
  \cup {[kind |-> k, value |-> NoValue] : k \in OtherKinds}

InitRestore ==
  /\ config \in Configs
  /\ cookie \in {<<>>} \cup {<<t>> : t \in SavedTexts}
  /\ seenCookie = cookie
  /\ state = ZeroState
  /\ currentPath \in Paths
  /\ isTransitioning = FALSE
  /\ mounted = FALSE
  /\ crashed = FALSE
  /\ lastOp = Op("load", Null, Null)
  /\ pre = ZeroState
  /\ navReq = <<>>
  /\ callbacks = 0
  /\ clicked = <<>>
  /\ entered = {}
  /\ walk = NoWalk
  /\ sim = NoSim
  /\ returned = Null

\* useState<OnboardingState>(getInitialState)
Construct ==
  /\ lastOp.op = "load"
  /\ state' = getInitialState(cookie)
  /\ lastOp' = Op("construct", Null, Null)
  /\ UNCHANGED <<config, returned, cookie, seenCookie, currentPath, isTransitioning, mounted,
                 crashed, pre, navReq, callbacks, clicked, entered, walk, sim>>

RestoreMount == lastOp.op = "construct" /\ Mount

RestoreNext ==
  \/ Construct
  \/ RestoreMount
  \/ PathChange

SpecRestore == InitRestore /\ [][RestoreNext]_vars

-----------------------------------------------------------------------------
(* Replay: the simulation effect calls simulateClicks for the position of an
   active record on the current path. *)

StepsReplay ==
  << Step(UAStar, NoUrl, TRUE, TRUE,
          <<Sub(NoUrl, TRUE), Sub(NoUrl, FALSE), Sub(NoUrl, TRUE)>>),
     Step(UAX, NoUrl, TRUE, TRUE, <<Sub(NoUrl, TRUE), Sub(NoUrl, TRUE)>>) >>

StepsReplayApart ==
  << Step(UB, NoUrl, TRUE, TRUE, <<Sub(NoUrl, TRUE)>>),
     Step(UAStar, NoUrl, TRUE, TRUE, <<Sub(NoUrl, FALSE), Sub(NoUrl, TRUE)>>) >>

ReplayConfigs ==
  Configs \cup
  {[steps |-> l, inOrder |-> o, hasCallback |-> FALSE, onNavigate |-> FALSE] :
     l \in {StepsReplay, StepsReplayApart}, o \in BOOLEAN}

InitReplay ==
  /\ config \in ReplayConfigs
  /\ \E s \in 0..(Len(config.steps) - 1) :
       \E k \in {Null} \cup (-1..Len(config.steps[s + 1].subSteps)) :
         state = [ZeroState EXCEPT !.currentStepIndex = s, !.currentSubStepIndex = k]
  /\ cookie = <<>>
  /\ seenCookie = <<>>
  /\ currentPath \in Paths
  /\ isTransitioning = FALSE
  /\ mounted = TRUE
  /\ crashed = FALSE
  /\ lastOp = Op("load", Null, Null)
  /\ pre = ZeroState
  /\ navReq = <<>>
  /\ callbacks = 0
  /\ clicked = <<>>
  /\ entered = {}
  /\ walk = NoWalk
  /\ sim = NoSim
  /\ returned = Null

\* simulateClicks(state.currentStepIndex, state.currentSubStepIndex)
Simulate ==
  /\ lastOp.op = "load"
  /\ state.isActive
  /\ clicked' = simulateClicks(state.currentStepIndex, state.currentSubStepIndex,
                               currentPath)
  /\ lastOp' = Op("simulateClicks", state.currentStepIndex, state.currentSubStepIndex)
  /\ UNCHANGED <<config, returned, state, cookie, seenCookie, currentPath, isTransitioning,
                 mounted, crashed, pre, navReq, callbacks, entered, walk, sim>>

SpecReplay == InitReplay /\ [][Simulate]_vars

-----------------------------------------------------------------------------
(* Click replay while the engine runs: the provider with
   simulateClicksOnNavigate, its refs, and the timers of performClick.  The
   host application navigates through onNavigate, so a page stays loaded
   across path changes. *)

StepsSim ==
  << Step(UAStar, NoUrl, TRUE, TRUE, <<Sub(UAX, FALSE), Sub(NoUrl, TRUE)>>),
     Step(UB, NoUrl, TRUE, FALSE, <<>>) >>

SimConfigs ==
  {[steps |-> l, inOrder |-> o, hasCallback |-> FALSE, onNavigate |-> TRUE,
    simulateClicksOnNavigate |-> c] :
     l \in {StepsSim, StepsSame}, o \in BOOLEAN, c \in BOOLEAN}

InitSim ==
  /\ config \in SimConfigs
  /\ state = ZeroState
  /\ cookie = <<>>
  /\ seenCookie = <<>>
  /\ currentPath \in Paths
  /\ isTransitioning = FALSE
  /\ mounted = FALSE
  /\ crashed = FALSE
  /\ lastOp = Op("construct", Null, Null)
  /\ pre = ZeroState
  /\ navReq = <<>>
  /\ callbacks = 0
  /\ clicked = <<>>
  /\ entered = {}
  /\ walk = NoWalk
  /\ sim = [NoSim EXCEPT !.lastPathForSimulation = currentPath]
  /\ returned = Null

\* The provider is mounted and runs.
SimRunning == Running /\ ~sim.tornDown

\* What every operation starts from: nothing scheduled yet, and the inline
\* clicks of an earlier nextStep forgotten.
Fresh(s) == [s EXCEPT !.invocations = 0, !.scheduled = <<>>, !.inline = <<>>]

\* wasInternalAction.current = true, first statement of nextStep, prevStep
\* and goToStep.
Internal(s) == [Fresh(s) EXCEPT !.wasInternalAction = TRUE]

\* First commit: the simulation effect runs with the constructed record,
\* the reconcile effect's update is rendered next and the simulation effect
\* runs again if the position changed.
SimMount ==
  /\ ~mounted
  /\ ~sim.tornDown
  /\ mounted' = TRUE
  /\ Apply(Op("mount", Null, Null), state, reconcile(state, currentPath))
  /\ sim' = Commit(simulationEffect(Fresh(sim), state, currentPath),
                   state, currentPath, state', currentPath)
  /\ Len(sim'.timers) <= MaxTimers
  /\ UNCHANGED <<currentPath, isTransitioning, entered, walk>>

SimNextStep ==
  /\ SimRunning
  /\ CallNextStep
  /\ sim' = [Commit(Internal(sim), state, currentPath, state', currentPath)
               EXCEPT !.inline = clicked']
  /\ Len(sim'.timers) <= MaxTimers
  /\ UNCHANGED <<entered, walk>>

SimPrevStep ==
  /\ SimRunning
  /\ CallPrevStep
  /\ sim' = Commit(Internal(sim), state, currentPath, state', currentPath)
  /\ Len(sim'.timers) <= MaxTimers
  /\ UNCHANGED <<entered, walk>>

\* goToStep, called for the position the record holds (which resumes a
\* finished tour where it stood).
SimGoToStep ==
  /\ SimRunning
  /\ \E stepIndex \in {state.currentStepIndex} :
       \E subStepIndex \in {state.currentSubStepIndex} :
         Apply(Op("goToStep", stepIndex, subStepIndex), state,
               goToStep(state, stepIndex, subStepIndex))
  /\ sim' = Commit(Internal(sim), state, currentPath, state', currentPath)
  /\ Len(sim'.timers) <= MaxTimers
  /\ UNCHANGED <<currentPath, isTransitioning, mounted, entered, walk>>

SimFinish ==
  /\ SimRunning
  /\ Apply(Op("finish", Null, Null), state, finish(state))
  /\ sim' = Commit(Fresh(sim), state, currentPath, state', currentPath)
  /\ UNCHANGED <<currentPath, isTransitioning, mounted, entered, walk>>

\* handlePathChange saw pathname p, another one than currentPath: the
\* render with the new path runs the reset effect, the reconcile effect and
\* the simulation effect (still with the old record); the reconcile effect's
\* update is rendered next and the simulation effect runs again if the
\* position changed.
Arrive(op, p, s) ==
  /\ p # currentPath
  /\ currentPath' = p
  /\ Apply(op, state, reconcile(state, p))
  /\ sim' = Commit(Commit(s, state, currentPath, state, p), state, p, state', p)
  /\ Len(sim'.timers) <= MaxTimers
  /\ UNCHANGED <<isTransitioning, mounted, entered, walk>>

\* The location changes for a reason of the user's or the host's.
SimPathChange ==
  /\ SimRunning
  /\ \E p \in Paths : Arrive(Op("pathChange", Null, Null), p, Fresh(sim))

\* The location changes because the host carried out the navigation that
\* the nextStep call just before asked for.
SimNavigated ==
  /\ SimRunning
  /\ lastOp.op = "nextStep"
  /\ navReq # <<>>
  /\ navReq[1].url \in Paths
  /\ Arrive(Op("navigated", Null, Null), navReq[1].url,
            [sim EXCEPT !.invocations = 0, !.scheduled = <<>>])

\* The 200 ms interval (or a history event) runs handlePathChange and the
\* pathname is the one already held: setCurrentPath with an equal value
\* renders nothing.
SimObserve ==
  /\ SimRunning
  /\ lastOp' = Op("observe", Null, Null)
  /\ sim' = Commit(Fresh(sim), state, currentPath, state, currentPath)
  /\ UNCHANGED <<config, returned, state, cookie, seenCookie, currentPath, isTransitioning,
                 mounted, crashed, pre, navReq, callbacks, clicked, entered, walk>>

\* A timer of some pending chain fires: performClick clicks the chain's next
\* target and sets the timer for the one after it.  (The timer that finds
\* the list exhausted does nothing and is left out.)
SimPerformClick ==
  /\ \E c \in 1..Len(sim.timers) :
       /\ lastOp' = Op("performClick", sim.timers[c][1][1], Null)
       /\ sim' = [Fresh(sim) EXCEPT
                    !.timers = IF Len(sim.timers[c]) = 1
                               THEN SubSeq(@, 1, c - 1) \o SubSeq(@, c + 1, Len(@))
                               ELSE [@ EXCEPT ![c] = Tail(@)]]
  /\ UNCHANGED <<config, returned, state, cookie, seenCookie, currentPath, isTransitioning,
                 mounted, crashed, pre, navReq, callbacks, clicked, entered, walk>>

\* The provider is unmounted: the cleanup of the path observer removes the
\* listeners, restores history.pushState and history.replaceState and
\* clears the interval.  No cleanup clears the timers of performClick.
SimUnmount ==
  /\ SimRunning
  /\ lastOp' = Op("unmount", Null, Null)
  /\ sim' = [Fresh(sim) EXCEPT !.tornDown = TRUE]
  /\ UNCHANGED <<config, returned, state, cookie, seenCookie, currentPath, isTransitioning,
                 mounted, crashed, pre, navReq, callbacks, clicked, entered, walk>>

SimNext ==
  \/ SimMount
  \/ SimNextStep
  \/ SimPrevStep
  \/ SimGoToStep
  \/ SimFinish
  \/ SimPathChange
  \/ SimNavigated
  \/ SimObserve
  \/ SimPerformClick
  \/ SimUnmount

SpecSim == InitSim /\ [][SimNext]_vars

-----------------------------------------------------------------------------
(* The URL matcher on its own: isMatch applied to a rule and a path *)

MaxRule == 4
MaxPath == 4

RuleChars == {"/", "u", "*"}
PathChars == {"/", "u", "1"}

\* The texts of up to n characters from set C.
Texts(C, n) == UNION {[1..k -> C] : k \in 0..n}

\* A step that declares nothing but the rule; the empty text stands for a
\* step without urlMatch (both are falsy in the guard of isMatch).
RuleStep(rule) == Step(rule, NoUrl, FALSE, FALSE, <<>>)

InitMatch ==
  /\ \E rule \in Texts(RuleChars, MaxRule) :
       config = [steps |-> << RuleStep(rule) >>, inOrder |-> FALSE,
                 hasCallback |-> FALSE, onNavigate |-> FALSE]
  /\ currentPath \in Texts(PathChars, MaxPath)
  /\ state = ZeroState
  /\ cookie = <<>>
  /\ seenCookie = <<>>
  /\ isTransitioning = FALSE
  /\ mounted = FALSE
  /\ crashed = FALSE
  /\ lastOp = Op("load", Null, Null)
  /\ pre = ZeroState
  /\ navReq = <<>>
  /\ callbacks = 0
  /\ clicked = <<>>
  /\ entered = {}
  /\ walk = NoWalk
  /\ sim = NoSim
  /\ returned = Null

\* isMatch(step, path)
Match ==
  /\ lastOp.op = "load"
  /\ returned' = isMatch(StepAt(0), currentPath)
  /\ lastOp' = Op("isMatch", Null, Null)
  /\ UNCHANGED <<config, state, cookie, seenCookie, currentPath, isTransitioning,
                 mounted, crashed, pre, navReq, callbacks, clicked, entered, walk,
                 sim>>

SpecMatch == InitMatch /\ [][Match]_vars

-----------------------------------------------------------------------------
(* Detours: the user has advanced into a sub-step, the path changes to
   another page and then changes again, with nothing in between. *)

\* handlePathChange saw pathname p and the reconcile effect ran; the caller
\* says what becomes of the walk bookkeeping.
CallPathChange(p) ==
  /\ Running
  /\ p # currentPath
  /\ currentPath' = p
  /\ Apply(Op("pathChange", Null, Null), state, reconcile(state, p))
  /\ UNCHANGED <<isTransitioning, mounted, entered, sim>>

\* The first path change of a detour, right after a nextStep call that left
\* the record on a sub-step: the position left and the path gone to are
\* remembered.
Leave ==
  /\ Idle
  /\ lastOp.op = "nextStep"
  /\ state.isActive
  /\ state.currentSubStepIndex # Null
  /\ \E p \in Paths :
       /\ CallPathChange(p)
       /\ walk' = [phase |-> "away", origin |-> Position(state), n |-> 0, m |-> 0,
                   via |-> p]

\* The second path change of a detour.
Return ==
  /\ walk.phase = "away"
  /\ \E p \in Paths : CallPathChange(p)
  /\ walk' = [walk EXCEPT !.phase = "returned"]

\* Two steps whose rules both match '/a/x', the second with sub-steps, and a
\* third step on another page.
StepsOverlap ==
  << Step(UAX, NoUrl, FALSE, FALSE, <<>>),
     Step(UAStar, NoUrl, FALSE, TRUE, <<Sub(NoUrl, FALSE), Sub(NoUrl, FALSE)>>),
     Step(UB, NoUrl, FALSE, FALSE, <<>>) >>

DetourConfigs ==
  Configs \cup
  {[steps |-> StepsOverlap, inOrder |-> o, hasCallback |-> FALSE,
    onNavigate |-> FALSE] : o \in BOOLEAN}

InitDetour ==
  /\ config \in DetourConfigs
  /\ state = ZeroState
  /\ cookie = <<>>
  /\ seenCookie = <<>>
  /\ currentPath \in Paths
  /\ isTransitioning = FALSE
  /\ mounted = FALSE
  /\ crashed = FALSE
  /\ lastOp = Op("construct", Null, Null)
  /\ pre = ZeroState
  /\ navReq = <<>>
  /\ callbacks = 0
  /\ clicked = <<>>
  /\ entered = {}
  /\ walk = NoWalk
  /\ sim = NoSim
  /\ returned = Null

DetourNext ==
  \/ Mount
  \/ WalkNextStep
  \/ WalkPathChange
  \/ Leave
  \/ Return

SpecDetour == InitDetour /\ [][DetourNext]_vars

-----------------------------------------------------------------------------
(* Navigation of the transition operations: configurations in which a step
   and its sub-steps declare different navigate URLs, driven by nextStep,
   prevStep and goToStep. *)

StepsNav ==
  << Step(UA, UB, FALSE, TRUE, <<Sub(UAX, FALSE), Sub(NoUrl, FALSE)>>),
     Step(UB, UA, FALSE, TRUE, <<Sub(UAX, FALSE), Sub(NoUrl, FALSE)>>) >>

NavConfigs ==
  Configs \cup
  {[steps |-> StepsNav, inOrder |-> o, hasCallback |-> TRUE, onNavigate |-> TRUE] :
     o \in BOOLEAN}

InitNav ==
  /\ config \in NavConfigs
  /\ state = ZeroState
  /\ cookie = <<>>
  /\ seenCookie = <<>>
  /\ currentPath \in Paths
  /\ isTransitioning = FALSE
  /\ mounted = FALSE
  /\ crashed = FALSE
  /\ lastOp = Op("construct", Null, Null)
  /\ pre = ZeroState
  /\ navReq = <<>>
  /\ callbacks = 0
  /\ clicked = <<>>
  /\ entered = {}
  /\ walk = NoWalk
  /\ sim = NoSim
  /\ returned = Null

NavNext ==
  \/ Mount
  \/ NextStep
  \/ PrevStep
  \/ GoToStep

SpecNav == InitNav /\ [][NavNext]_vars

\* ---------------------------------------------------------------------
\* The chain of timers that simulateClicks sets, with targets that may be
\* missing from the document.  `clicked` holds the targets activated so far
\* and sim.scheduled the list that was collected.
\* ---------------------------------------------------------------------

InitChain == InitReplay

\* simulateClicks(state.currentStepIndex, state.currentSubStepIndex): the list
\* is collected and, unless it is empty, the first timer is set.
ChainSimulate ==
  /\ lastOp.op = "load"
  /\ state.isActive
  /\ sim' = Invoked(sim, simKey(state, currentPath),
                    simulateClicks(state.currentStepIndex, state.currentSubStepIndex,
                                   currentPath))
  /\ lastOp' = Op("simulateClicks", state.currentStepIndex, state.currentSubStepIndex)
  /\ UNCHANGED <<config, returned, state, cookie, seenCookie, currentPath, isTransitioning,
                 mounted, crashed, pre, navReq, callbacks, clicked, entered, walk>>

\* The timer of the chain fires: performClick(index) looks the target up,
\* clicks it if document.querySelector found it, and sets the timer of
\* performClick(index + 1) in either case.
ChainPerformClick ==
  /\ sim.timers # <<>>
  /\ \E found \in BOOLEAN :
       /\ lastOp' = Op(IF found THEN "performClick" ELSE "notFound",
                       sim.timers[1][1][1], Null)
       /\ clicked' = IF found THEN Append(clicked, sim.timers[1][1]) ELSE clicked
  /\ sim' = [sim EXCEPT !.timers = IF Len(@[1]) = 1 THEN Tail(@)
                                   ELSE [@ EXCEPT ![1] = Tail(@)]]
  /\ UNCHANGED <<config, returned, state, cookie, seenCookie, currentPath, isTransitioning,
                 mounted, crashed, pre, navReq, callbacks, entered, walk>>

ChainNext == ChainSimulate \/ ChainPerformClick

SpecChain == InitChain /\ [][ChainNext]_vars

\* ---------------------------------------------------------------------
\* Strict order with no user operation and an onNavigate sink that sets the
\* path to the URL it is given: reconcile, navigate, observe the new path,
\* reconcile again.  walk.n counts the navigations requested so far.
\* ---------------------------------------------------------------------

\* Steps whose navigate URL does not satisfy their own urlMatch.
StepsAstray ==
  << Step(UA, UB, FALSE, FALSE, <<>>),
     Step(UAStar, UB, FALSE, TRUE, <<Sub(NoUrl, FALSE)>>),
     Step(UB, UAX, FALSE, FALSE, <<>>) >>

SettleConfigs ==
  {[steps |-> l, inOrder |-> TRUE, hasCallback |-> FALSE, onNavigate |-> TRUE] :
     l \in {StepsAstray, StepsNav, StepsTwo, StepsSame}}

\* Any active record, valid or not.
SettleRecords ==
  [currentStepIndex : -1..3, currentSubStepIndex : {Null, 0}, isActive : {TRUE},
   completedSteps : {<<>>, <<0>>, <<1>>, <<0, 1>>, <<1, 0>>, <<0, 1, 2>>},
   subStepProgress : {<<>>, 0 :> 0, 1 :> 0}]

InitSettle ==
  /\ config \in SettleConfigs
  /\ state \in SettleRecords
  /\ cookie = <<>>
  /\ seenCookie = <<>>
  /\ currentPath \in Paths
  /\ isTransitioning = FALSE
  /\ mounted = FALSE
  /\ crashed = FALSE
  /\ lastOp = Op("construct", Null, Null)
  /\ pre = ZeroState
  /\ navReq = <<>>
  /\ callbacks = 0
  /\ clicked = <<>>
  /\ entered = {}
  /\ walk = NoWalk
  /\ sim = NoSim
  /\ returned = Null

\* First render committed: the reconcile effect runs.
SettleMount ==
  /\ ~mounted
  /\ mounted' = TRUE
  /\ Apply(Op("mount", Null, Null), state, reconcile(state, currentPath))
  /\ walk' = [walk EXCEPT !.n = @ + Len(reconcile(state, currentPath).nav)]
  /\ UNCHANGED <<currentPath, isTransitioning, entered, sim>>

\* The sink serves the request of the last reconcile pass: the path becomes
\* the requested URL, the path observer calls setCurrentPath and, when the
\* path differs from the one rendered, the reconcile effect runs again.
SettleNavigate ==
  /\ Running
  /\ navReq # <<>>
  /\ LET p == navReq[1].url
         r == IF p = currentPath THEN Outcome(state, <<>>, 0, <<>>, FALSE, FALSE)
              ELSE reconcile(state, p)
     IN  /\ currentPath' = p
         /\ Apply(Op("navigated", Null, Null), state, r)
         /\ walk' = [walk EXCEPT !.n = @ + Len(r.nav)]
  /\ UNCHANGED <<isTransitioning, mounted, entered, sim>>

SettleNext == SettleMount \/ SettleNavigate

SpecSettle == InitSettle /\ [][SettleNext]_vars /\ WF_vars(SettleNext)

\* ---------------------------------------------------------------------
\* nextStep called again and again from the zero-value record, with no path
\* change and no other operation in between.  walk.n counts the calls.
\* ---------------------------------------------------------------------

MaxAdvance == 8

AdvanceConfigs ==
  Configs \cup
  {[steps |-> l, inOrder |-> o, hasCallback |-> TRUE, onNavigate |-> TRUE] :
     l \in {StepsReplay, StepsNav, StepsOverlap}, o \in BOOLEAN}

InitAdvance ==
  /\ config \in AdvanceConfigs
  /\ state = ZeroState
  /\ cookie = <<>>
  /\ seenCookie = <<>>
  /\ currentPath \in Paths
  /\ isTransitioning = FALSE
  /\ mounted = FALSE
  /\ crashed = FALSE
  /\ lastOp = Op("construct", Null, Null)
  /\ pre = ZeroState
  /\ navReq = <<>>
  /\ callbacks = 0
  /\ clicked = <<>>
  /\ entered = {}
  /\ walk = NoWalk
  /\ sim = NoSim
  /\ returned = Null

\* The calls start here, the mounted record being the zero-value record.
StartAdvance ==
  /\ Idle
  /\ Running
  /\ state = ZeroState
  /\ walk' = [phase |-> "advance", origin |-> Position(state), n |-> 0, m |-> 0]
  /\ UNCHANGED <<engine, entered, sim>>

Advance ==
  /\ walk.phase = "advance"
  /\ walk.n < MaxAdvance
  /\ CallNextStep
  /\ walk' = [walk EXCEPT !.n = walk.n + 1]
  /\ UNCHANGED <<entered, sim>>

AdvanceNext == Mount \/ StartAdvance \/ Advance

SpecAdvance == InitAdvance /\ [][AdvanceNext]_vars

-----------------------------------------------------------------------------
(* Properties *)

cur == state.currentStepIndex
sub == state.currentSubStepIndex

\* The step has no sub-steps: it declares no list, or an empty one (the
\* reading isLastStep takes).
NoSubSteps(i) == ~StepAt(i).hasSubs \/ Len(StepAt(i).subSteps) = 0

\* The record st sits at the end of the flow: on the last step, which has
\* no sub-steps or is at its last sub-step.
AtEnd(st) ==
  /\ st.currentStepIndex = NumSteps - 1
  /\ \/ NoSubSteps(st.currentStepIndex)
     \/ st.currentSubStepIndex = Len(StepAt(st.currentStepIndex).subSteps) - 1

\* C1: while isActive is true, currentStepIndex is a valid index into the
\* step sequence, whatever nextStep, prevStep, finish, goToStep (with any
\* arguments) and reconciliation did before.
C1_StepIndexValid == state.isActive => StepDefined(cur)

\* goToStep was called with a step index past the end (and with one before
\* the start) and the active record still points at a step of the flow.
C1_Witness ==
  /\ lastOp.op = "goToStep"
  /\ lastOp.step = NumSteps
  /\ state.isActive
  /\ cur = NumSteps - 1
  /\ NumSteps = 2

\* C2: whenever currentSubStepIndex is non-null, the current step has a
\* sub-step list and currentSubStepIndex is an index into it.
C2_SubStepIndexValid ==
  sub # Null => /\ StepDefined(cur)
                /\ StepAt(cur).hasSubs
                /\ SubDefined(StepAt(cur), sub)

\* C3: with only nextStep, prevStep and reconciliation on path changes, a
\* step is in completedSteps only if each of its sub-steps was entered by an
\* earlier nextStep call.
C3_CompletedOnlyAfterSubSteps ==
  \A i \in 0..(NumSteps - 1) :
    Includes(state.completedSteps, i) =>
      \A j \in 0..(Len(StepAt(i).subSteps) - 1) : <<i, j>> \in entered

\* C4: n nextStep calls followed by n prevStep calls, with nothing in
\* between, end at the position they started from.
C4_RoundTrip ==
  (walk.phase = "back" /\ walk.m = walk.n /\ ~crashed)
     => Position(state) = walk.origin

\* C5: nextStep called at the end of the flow (last step, no sub-steps or at
\* its last sub-step) clears isActive, puts the step into completedSteps,
\* keeps currentStepIndex and calls the completion callback exactly once.
C5_FinalAdvance ==
  (lastOp.op = "nextStep" /\ StepDefined(pre.currentStepIndex) /\ AtEnd(pre))
     => /\ ~state.isActive
        /\ Includes(state.completedSteps, pre.currentStepIndex)
        /\ cur = pre.currentStepIndex
        /\ config.hasCallback => callbacks = 1

\* C6: the completion callback is called once by each nextStep or finish
\* that takes isActive from true to false, and never by prevStep, goToStep,
\* reconciliation, restoration, or a nextStep that does not take isActive
\* from true to false.
C6_CallbackOncePerFinish ==
  LET finished == pre.isActive /\ ~state.isActive
  IN  /\ (lastOp.op \in {"nextStep", "finish", "clickFinish"} /\ finished
            /\ config.hasCallback) => callbacks = 1
      /\ lastOp.op \in {"prevStep", "goToStep", "mount", "pathChange", "reload"}
            => callbacks = 0
      /\ (lastOp.op = "nextStep" /\ ~finished) => callbacks = 0

\* C7: finish clears isActive and calls the completion callback; it leaves
\* completedSteps, both indices and the resume map as they were and requests
\* no navigation.
C7_FinishFrame ==
  lastOp.op = "finish" =>
    /\ ~state.isActive
    /\ callbacks = (IF config.hasCallback THEN 1 ELSE 0)
    /\ state.completedSteps = pre.completedSteps
    /\ cur = pre.currentStepIndex
    /\ sub = pre.currentSubStepIndex
    /\ state.subStepProgress = pre.subStepProgress
    /\ navReq = <<>>

\* finish was called on an active record inside a sub-step, with a step
\* already completed.
C7_Witness ==
  /\ lastOp.op = "finish"
  /\ pre.isActive
  /\ pre.currentSubStepIndex # Null
  /\ pre.completedSteps # <<>>
  /\ callbacks = 1

\* C8: the overlay's Finish control, used on the last sub-step of the last
\* step, leaves isActive false and the last step in completedSteps.
C8_FinishControlCompletes ==
  (lastOp.op = "clickFinish" /\ StepAt(pre.currentStepIndex).hasSubs
     /\ pre.currentSubStepIndex = Len(StepAt(pre.currentStepIndex).subSteps) - 1)
     => /\ ~state.isActive
        /\ Includes(state.completedSteps, NumSteps - 1)

\* C9: goToStep(s, k) with s a valid step index sets currentStepIndex to s,
\* currentSubStepIndex to k and isActive to true, records k for s in the
\* resume map, and leaves completedSteps and the other resume entries alone.
C9_GoToValidStep ==
  (lastOp.op = "goToStep" /\ StepDefined(lastOp.step)) =>
    /\ ~crashed
    /\ cur = lastOp.step
    /\ sub = lastOp.sub
    /\ state.isActive
    /\ lastOp.step \in DOMAIN state.subStepProgress
    /\ state.subStepProgress[lastOp.step] = lastOp.sub
    /\ state.completedSteps = pre.completedSteps
    /\ \A i \in (0..(NumSteps - 1)) \ {lastOp.step} :
         /\ i \in DOMAIN state.subStepProgress <=> i \in DOMAIN pre.subStepProgress
         /\ i \in DOMAIN pre.subStepProgress =>
              state.subStepProgress[i] = pre.subStepProgress[i]

\* goToStep jumped from a finished flow to a sub-step of another step, with
\* a completed step and a resume entry of another step in the record.
C9_Witness ==
  /\ lastOp.op = "goToStep"
  /\ StepDefined(lastOp.step)
  /\ lastOp.sub # Null
  /\ ~pre.isActive
  /\ pre.currentStepIndex # lastOp.step
  /\ pre.completedSteps # <<>>
  /\ pre.currentStepIndex \in DOMAIN pre.subStepProgress
  /\ state.isActive

\* C10: goToStep with a step index outside the step sequence changes
\* nothing (record, cookie, navigation) and raises no error.
C10_GoToInvalidIsNoOp ==
  (lastOp.op = "goToStep" /\ ~StepDefined(lastOp.step)) =>
    /\ ~crashed
    /\ state = pre
    /\ cookie = << JSONstringify(pre) >>
    /\ navReq = <<>>

\* C11: one nextStep, prevStep, goToStep or reconciliation pass performs at
\* most one navigation, never to an empty URL; when onNavigate is given the
\* navigation goes through it and location.href is not assigned.
C11_OneNavigation ==
  /\ Len(navReq) <= 1
  /\ \A n \in 1..Len(navReq) :
       /\ navReq[n].url # NoUrl
       /\ config.onNavigate => navReq[n].via = "onNavigate"

\* nextStep moved to another position and navigated through onNavigate.
C11_Witness ==
  /\ lastOp.op = "nextStep"
  /\ Position(state) # Position(pre)
  /\ config.onNavigate
  /\ Len(navReq) = 1
  /\ navReq[1].via = "onNavigate"

\* C12: when a transition (nextStep, prevStep, goToStep, or a reconciliation
\* pass) both changes the progress record and navigates, the cookie already
\* holds the new record at the moment of the navigation.
C12_PersistedBeforeNavigation ==
  (navReq # <<>> /\ state # pre
     /\ lastOp.op \in {"nextStep", "prevStep", "goToStep", "mount", "pathChange", "reload"})
     => seenCookie = << JSONstringify(state) >>

\* C13: constructing the initial record never fails.  It is the zero-value
\* record when the cookie is absent or does not parse to an object;
\* otherwise every field the parsed object has is taken and every missing
\* one gets its zero value, so a complete record comes back unchanged.
C13_InitialState ==
  (lastOp.op = "construct" /\ ~mounted) =>
    /\ ~crashed
    /\ (cookie = <<>> \/ cookie[1].kind # "object") => state = ZeroState
    /\ (cookie # <<>> /\ cookie[1].kind = "object") =>
         /\ \A f \in Fields :
              state[f] = IF f \in DOMAIN cookie[1].value
                         THEN cookie[1].value[f] ELSE ZeroState[f]
         /\ DOMAIN cookie[1].value = Fields => cookie = << JSONstringify(state) >>

\* The provider was constructed from a cookie that has some fields, differing
\* from the zero values, and lacks others.
C13_Witness ==
  /\ lastOp.op = "construct"
  /\ ~mounted
  /\ cookie # <<>>
  /\ cookie[1].kind = "object"
  /\ DOMAIN cookie[1].value = {"currentStepIndex", "completedSteps"}
  /\ state.currentStepIndex = 1
  /\ state.completedSteps = <<0>>
  /\ state.isActive

\* The last operation was a reconciliation pass (on mount, on a path change,
\* or on the mount after a reload) over an active record.
Reconciled == lastOp.op \in {"mount", "pathChange", "reload"} /\ pre.isActive

\* The steps that match the current path and were not completed before the
\* pass.
Candidates ==
  {i \in 0..(NumSteps - 1) :
     isMatch(StepAt(i), currentPath) /\ ~Includes(pre.completedSteps, i)}

\* C14: in free-order mode a reconciliation pass on an active record moves
\* to the lowest step that matches the path and is not completed, if there
\* is one and it is not the current step, and takes that step's resume
\* sub-step (null if none); completedSteps, isActive and the resume map stay.
C14_FreeOrderSwitch ==
  (Reconciled /\ ~config.inOrder) =>
    /\ \A i \in Candidates :
         ((\A j \in Candidates : i <= j) /\ i # pre.currentStepIndex) =>
            /\ cur = i
            /\ sub = (IF i \in DOMAIN pre.subStepProgress
                      THEN pre.subStepProgress[i] ELSE Null)
    /\ state.completedSteps = pre.completedSteps
    /\ state.isActive = pre.isActive
    /\ state.subStepProgress = pre.subStepProgress

\* A free-order pass skipped the completed step 0, which matches the path,
\* and moved from it to step 1.
C14_Witness ==
  /\ Reconciled
  /\ ~config.inOrder
  /\ Includes(pre.completedSteps, 0)
  /\ isMatch(StepAt(0), currentPath)
  /\ pre.currentStepIndex = 0
  /\ cur = 1

\* What the overlay shows in the current state.
Shown == currentStep(state, currentPath, isTransitioning)

\* The last reconciliation pass ran in free-order mode and found no step
\* that matches the path and is not completed.
NoCandidate == Reconciled /\ ~config.inOrder /\ Candidates = {}

\* C15 as stated: in free-order mode, when the path matches no uncompleted
\* step, the pass leaves the record as it was and nothing is shown while the
\* path does not match the current step.
C15_Original ==
  NoCandidate =>
    /\ state = pre
    /\ (StepDefined(cur) /\ ~isMatch(StepAt(cur), currentPath)) => Shown = NoStep

\* C15, amended: in free-order mode, when the path matches no uncompleted
\* step, the pass leaves the record as it was; while the path does not match
\* the current step nothing is shown, except that inside a sub-step the
\* overlay stays up while isTransitioning is set (the second that follows a
\* nextStep into a sub-step).
C15_FreeOrderNoMatch ==
  NoCandidate =>
    /\ state = pre
    /\ (StepDefined(cur) /\ ~isMatch(StepAt(cur), currentPath)) =>
         \/ Shown = NoStep
         \/ isTransitioning /\ sub # Null /\ StepAt(cur).hasSubs

\* A free-order pass found no candidate on a path change; the record is
\* active inside a sub-step, the transition second is over and nothing is
\* shown.
C15_Witness ==
  /\ NoCandidate
  /\ lastOp.op = "pathChange"
  /\ state.isActive
  /\ sub # Null
  /\ ~isTransitioning
  /\ ~isMatch(StepAt(cur), currentPath)
  /\ Shown = NoStep

\* C16: in free-order mode, after the provider mounts from a persisted
\* active record whose current step is completed, that step is not shown,
\* even on a path that matches it.
C16_CompletedStepNotShown ==
  (lastOp.op = "reload" /\ ~config.inOrder /\ pre.isActive
     /\ Includes(pre.completedSteps, pre.currentStepIndex))
     => ~(cur = pre.currentStepIndex /\ Shown # NoStep)

\* The steps that were not completed before the last pass.
Unfinished == {i \in 0..(NumSteps - 1) : ~Includes(pre.completedSteps, i)}

\* C17: in strict-order mode, after a reconciliation pass on an active record
\* with an uncompleted step, currentStepIndex is the lowest uncompleted
\* index; if the pass switched steps currentSubStepIndex is that step's
\* resume entry (null if none), otherwise it is what it was.
C17_StrictOrderStep ==
  (Reconciled /\ config.inOrder /\ Unfinished # {}) =>
    /\ cur \in Unfinished
    /\ \A j \in Unfinished : cur <= j
    /\ sub = IF cur # pre.currentStepIndex
             THEN (IF cur \in DOMAIN pre.subStepProgress
                   THEN pre.subStepProgress[cur] ELSE Null)
             ELSE pre.currentSubStepIndex

\* A strict-order pass on a path change went back from step 1 to the
\* uncompleted step 0 and resumed it at a sub-step.
C17_Witness ==
  /\ Reconciled
  /\ config.inOrder
  /\ lastOp.op = "pathChange"
  /\ pre.currentStepIndex = 1
  /\ cur = 0
  /\ sub # Null

\* C18: in strict-order mode a reconciliation pass on an active record
\* navigates exactly when the path does not match the rule of the first
\* uncompleted step, and then to a URL that step declares (its navigate URL
\* or its urlMatch).
C18_StrictOrderNavigation ==
  (Reconciled /\ config.inOrder /\ Unfinished # {}) =>
    \A f \in Unfinished :
      (\A j \in Unfinished : f <= j) =>
        /\ navReq # <<>> <=> ~isMatch(StepAt(f), currentPath)
        /\ navReq # <<>> => navReq[1].url \in {StepAt(f).navigate, StepAt(f).urlMatch}

\* Target a comes before target b in a replay: an earlier step first; within
\* a step its own target first, then its sub-steps in index order.
Before(a, b) ==
  \/ a[1] < b[1]
  \/ a[1] = b[1] /\ Len(a) = 1 /\ Len(b) = 2
  \/ a[1] = b[1] /\ Len(a) = 2 /\ Len(b) = 2 /\ a[2] < b[2]

\* The list clicked holds exactly the targets of T, each once, in order.
ListsExactly(T) ==
  /\ \A n \in 1..Len(clicked) : clicked[n] \in T
  /\ \A t \in T : \E n \in 1..Len(clicked) : clicked[n] = t
  /\ \A m, n \in 1..Len(clicked) : m < n => Before(clicked[m], clicked[n])

\* The click-flagged targets of the steps before s that match the path: each
\* step's own target and all of its sub-steps' targets.
EarlierTargets(s) ==
  LET earlier == {i \in 0..(s - 1) : isMatch(StepAt(i), currentPath)}
  IN  {<<i>> : i \in {i \in earlier : StepAt(i).click}}
      \cup UNION {{<<i, j>> : j \in {j \in 0..(Len(StepAt(i).subSteps) - 1) :
                                       StepAt(i).subSteps[j + 1].click}} : i \in earlier}

\* The click-flagged targets of step s itself before sub-step k, when step s
\* matches the path: its own target and its sub-steps' targets below k.
OwnTargets(s, k) ==
  IF ~isMatch(StepAt(s), currentPath) THEN {}
  ELSE {<<i>> : i \in {i \in {s} : StepAt(i).click}}
       \cup {<<s, j>> : j \in {j \in 0..(Len(StepAt(s).subSteps) - 1) :
                                 j < k /\ StepAt(s).subSteps[j + 1].click}}

\* C19: a replay that targets (s, k), k not null, on path p lists, in order:
\* for each step before s that matches p, its own target if click-flagged
\* and then all its click-flagged sub-step targets; then, if step s matches
\* p, its own target if click-flagged and its click-flagged sub-step targets
\* below k.  Nothing else is listed, and sub-step k itself never is.
C19_ReplayAtSubStep ==
  (lastOp.op = "simulateClicks" /\ lastOp.sub # Null) =>
    /\ ListsExactly(EarlierTargets(lastOp.step) \cup OwnTargets(lastOp.step, lastOp.sub))
    /\ \A n \in 1..Len(clicked) : clicked[n] # <<lastOp.step, lastOp.sub>>

\* C20: a replay that targets (s, null) lists neither step s's own target
\* nor any sub-step target of step s, only targets of matching steps before
\* s.
C20_ReplayAtStep ==
  (lastOp.op = "simulateClicks" /\ lastOp.sub = Null) =>
    /\ \A n \in 1..Len(clicked) : clicked[n][1] # lastOp.step
    /\ ListsExactly(EarlierTargets(lastOp.step))

\* A replay targeted step 1 without a sub-step; step 1 matches the path and
\* is click-flagged with click-flagged sub-steps, and the list holds the
\* targets of the matching step 0.
C20_Witness ==
  /\ lastOp.op = "simulateClicks"
  /\ lastOp.sub = Null
  /\ lastOp.step = 1
  /\ isMatch(StepAt(1), currentPath)
  /\ StepAt(1).click
  /\ StepAt(1).hasSubs
  /\ Len(clicked) = 3

\* C21: click replay is never invoked twice in a row for the same
\* (path, step, sub-step) combination.
C21_Original == sim.repeat = "none"

\* C21, with the exception the code makes: click replay is never invoked
\* twice in a row for the same (path, step, sub-step) combination unless the
\* path changed in between, and an observation of an unchanged path
\* schedules no replay.
C21_NoRepeatOnSamePath ==
  /\ sim.repeat # "samePath"
  /\ lastOp.op = "observe" => sim.invocations = 0

\* A replay was invoked for the position held on the path, targets were
\* scheduled, and the unchanged path has been observed again since.
C21_Witness ==
  /\ lastOp.op = "observe"
  /\ sim.lastInvoked = simKey(state, currentPath)
  /\ sim.timers # <<>>

\* C22: with simulateClicksOnNavigate, a target that a nextStep call clicked
\* inline is not scheduled again by a replay which that call triggers,
\* neither by the effect after the call nor by the effect after the path
\* change that the call's own navigation causes.
C22_NoDoubleActivation ==
  (config.simulateClicksOnNavigate /\ lastOp.op \in {"nextStep", "navigated"})
    => \A i \in 1..Len(sim.scheduled) :
         \A j \in 1..Len(sim.inline) : sim.scheduled[i] # sim.inline[j]

\* C23: once the provider is unmounted no replayed click fires.
C23_NoClickAfterTeardown == lastOp.op = "performClick" => ~sim.tornDown

\* The position of the first occurrence of text x in text t at or after
\* position from, 0 if there is none.
FirstAt(x, t, from) ==
  LET S == {n \in from..(Len(t) - Len(x) + 1) : SubSeq(t, n, n + Len(x) - 1) = x}
  IN IF S = {} THEN 0 ELSE CHOOSE n \in S : \A m \in S : n <= m

\* The literal pieces of a rule between its stars, in order.
RECURSIVE Pieces(_)
Pieces(rule) ==
  LET S == {n \in 1..Len(rule) : rule[n] = "*"}
  IN IF S = {} THEN << rule >>
     ELSE LET n == CHOOSE k \in S : \A m \in S : k <= m
          IN << SubSeq(rule, 1, n - 1) >> \o Pieces(SubSeq(rule, n + 1, Len(rule)))

\* Pieces ps[k..] can be laid out in order in text t from position from on,
\* the last piece ending the text, with any run of characters before each.
RECURSIVE LaidOut(_, _, _, _)
LaidOut(ps, k, t, from) ==
  IF k = Len(ps)
  THEN /\ Len(t) - Len(ps[k]) + 1 >= from
       /\ SubSeq(t, Len(t) - Len(ps[k]) + 1, Len(t)) = ps[k]
  ELSE LET n == FirstAt(ps[k], t, from)
       IN n # 0 /\ LaidOut(ps, k + 1, t, n + Len(ps[k]))

\* The whole of text t is the rule with each star replaced by some run of
\* characters (possibly none).
WildcardMatches(rule, t) ==
  LET ps == Pieces(rule)
  IN /\ Len(t) >= Len(ps[1])
     /\ SubSeq(t, 1, Len(ps[1])) = ps[1]
     /\ IF Len(ps) = 1 THEN t = rule
        ELSE LaidOut(ps, 2, t, Len(ps[1]) + 1)

Detoured ==
  /\ walk.phase = "returned"
  /\ ~config.inOrder
  /\ StepDefined(walk.origin[1])
  /\ ~Includes(state.completedSteps, walk.origin[1])
  /\ \E t \in 0..(NumSteps - 1) :
       /\ t # walk.origin[1]
       /\ isMatch(StepAt(t), walk.via)
       /\ ~Includes(state.completedSteps, t)
  /\ isMatch(StepAt(walk.origin[1]), currentPath)

\* C25: in free-order mode, after advancing to sub-step k of step s, a path
\* change to a path matching a different uncompleted step followed by a path
\* change to a path matching s ends at (s, k).
C25_Original == Detoured => Position(state) = walk.origin

\* C25, for a return path on which s is the first uncompleted matching
\* step: the detour ends at (s, k).
C25_DetourRestores ==
  (Detoured /\ \A u \in 0..(walk.origin[1] - 1) :
                  isMatch(StepAt(u), currentPath) => Includes(state.completedSteps, u))
    => Position(state) = walk.origin

\* A detour that went to another step in between and came back to the
\* sub-step left.
C25_Witness ==
  /\ Detoured
  /\ pre.currentStepIndex # walk.origin[1]
  /\ Position(state) = walk.origin

\* nextStep was called on a step with sub-steps, the record being on the
\* step itself or on a sub-step before the last one.
AdvancedWithinStep ==
  /\ lastOp.op = "nextStep"
  /\ StepDefined(pre.currentStepIndex)
  /\ StepAt(pre.currentStepIndex).hasSubs
  /\ Len(StepAt(pre.currentStepIndex).subSteps) > 0
  /\ \/ pre.currentSubStepIndex = Null
     \/ pre.currentSubStepIndex < Len(StepAt(pre.currentStepIndex).subSteps) - 1

\* C26: nextStep on a step with sub-steps, at no sub-step or below the last
\* one, sets currentSubStepIndex to 0 or one more, records it for the step in
\* the resume map, and leaves currentStepIndex, completedSteps, isActive and
\* the other resume entries alone; the completion callback is not invoked.
C26_SubStepAdvanceFrame ==
  AdvancedWithinStep =>
    LET k == IF pre.currentSubStepIndex = Null THEN 0 ELSE pre.currentSubStepIndex + 1
    IN /\ sub = k
       /\ Progress(state.subStepProgress, cur) = k
       /\ cur = pre.currentStepIndex
       /\ state.completedSteps = pre.completedSteps
       /\ state.isActive = pre.isActive
       /\ \A i \in (0..(NumSteps - 1)) \ {cur} :
            /\ i \in DOMAIN state.subStepProgress <=> i \in DOMAIN pre.subStepProgress
            /\ i \in DOMAIN pre.subStepProgress =>
                 state.subStepProgress[i] = pre.subStepProgress[i]
       /\ callbacks = 0

\* nextStep was called on a record whose position exists in the
\* configuration, and the updater returned.
AdvancedFromValid ==
  /\ lastOp.op = "nextStep"
  /\ ~crashed
  /\ StepDefined(pre.currentStepIndex)
  /\ \/ pre.currentSubStepIndex = Null
     \/ SubDefined(StepAt(pre.currentStepIndex), pre.currentSubStepIndex)

\* The element the record pre is on: the sub-step, or the step itself.
ActiveElement ==
  IF pre.currentSubStepIndex # Null
  THEN StepAt(pre.currentStepIndex).subSteps[pre.currentSubStepIndex + 1]
  ELSE StepAt(pre.currentStepIndex)

\* The last operation requested navigation to url and nothing else, or
\* requested none if url is undefined.
Requested(url) ==
  IF url = NoUrl THEN navReq = <<>>
  ELSE Len(navReq) = 1 /\ navReq[1].url = url

\* C27, entering a sub-step: the entered sub-step's navigate, or the owning
\* step's if the entered sub-step is the first and declares none.
C27_EnteringSubStep ==
  (AdvancedFromValid /\ AdvancedWithinStep) =>
    LET newSub == StepAt(cur).subSteps[sub + 1]
    IN Requested(IF newSub.navigate # NoUrl THEN newSub.navigate
                 ELSE IF sub = 0 THEN StepAt(cur).navigate ELSE NoUrl)

\* C27, moving to the next step: the first defined of the just-finished
\* active element's, the next step's and the resumed sub-step's navigate.
C27_MovingToNextStep ==
  (AdvancedFromValid /\ ~AdvancedWithinStep /\ pre.currentStepIndex < NumSteps - 1) =>
    Requested(OrUrl(ActiveElement.navigate,
                    OrUrl(StepAt(cur).navigate,
                          IF sub # Null /\ SubDefined(StepAt(cur), sub)
                          THEN StepAt(cur).subSteps[sub + 1].navigate
                          ELSE NoUrl)))

\* C27, finishing the flow: the just-finished active element's navigate.
C27_Finishing ==
  (AdvancedFromValid /\ ~AdvancedWithinStep /\ pre.currentStepIndex = NumSteps - 1) =>
    Requested(ActiveElement.navigate)

\* C27: the URL nextStep requests is the one given by the three cases above,
\* and no navigation is requested when that URL is undefined.
C27_AdvanceNavigation ==
  /\ C27_EnteringSubStep
  /\ C27_MovingToNextStep
  /\ C27_Finishing

\* C28: goToStep(s, k) requests the navigate URL of sub-step k of step s if
\* k is not null and that sub-step declares one, otherwise the navigate URL
\* of step s (and nothing if that is not declared either).
C28_GoToNavigation ==
  (lastOp.op = "goToStep" /\ ~crashed /\ StepDefined(lastOp.step)) =>
    LET stepObj == StepAt(lastOp.step)
        k == lastOp.sub
    IN Requested(IF k # Null /\ SubDefined(stepObj, k)
                    /\ stepObj.subSteps[k + 1].navigate # NoUrl
                 THEN stepObj.subSteps[k + 1].navigate
                 ELSE stepObj.navigate)

\* C29: prevStep called on sub-step 0 sets currentSubStepIndex to null and
\* keeps currentStepIndex, whatever the step; prevStep leaves the record as
\* it is only at step 0 with no sub-step.
C29_RetreatFromFirstSubStep ==
  (lastOp.op = "prevStep" /\ ~crashed) =>
    /\ pre.currentSubStepIndex = 0 => (sub = Null /\ cur = pre.currentStepIndex)
    /\ state = pre => Position(pre) = <<0, Null>>

\* C30: prevStep called at (s, null) with s > 0 moves to step s - 1, at the
\* sub-step recorded for it in the resume map, else at its last sub-step if
\* it has sub-steps, else at none; it sets isActive, records that sub-step
\* for s - 1 in the resume map and leaves completedSteps alone.
C30_RetreatToPreviousStep ==
  (lastOp.op = "prevStep" /\ ~crashed
     /\ pre.currentSubStepIndex = Null /\ pre.currentStepIndex > 0) =>
    LET p == pre.currentStepIndex - 1
        recorded == Progress(pre.subStepProgress, p)
        k == IF recorded # Null THEN recorded
             ELSE IF Len(StepAt(p).subSteps) > 0 THEN Len(StepAt(p).subSteps) - 1
                  ELSE Null
    IN /\ cur = p
       /\ sub = k
       /\ state.isActive
       /\ p \in DOMAIN state.subStepProgress
       /\ state.subStepProgress[p] = k
       /\ state.completedSteps = pre.completedSteps

\* C31: a prevStep call on a finished flow (isActive false) that changes the
\* position sets isActive to true, whichever branch it takes.
C31_RetreatReactivates ==
  (lastOp.op = "prevStep" /\ ~crashed /\ ~pre.isActive /\ Position(state) # Position(pre))
    => state.isActive


\* C32: the scheduled replay activates the collected targets one at a time
\* in list order, each at most once, and stops at the first target that is
\* not found: the targets activated so far are always an initial segment of
\* the collected list, with every target before the last one found.
C32_ChainStopsAtMissing ==
  (lastOp.op \in {"performClick", "notFound"})
    => /\ Len(clicked) <= Len(sim.scheduled)
       /\ clicked = SubSeq(sim.scheduled, 1, Len(clicked))
       /\ (lastOp.op = "notFound" => sim.timers = <<>>)

\* C33: in strict order, with no user operation and a sink that sets the path
\* to the requested URL, at most one navigation is requested from any active
\* record and any starting path, and the loop of reconciliation and
\* navigation comes to rest with no request pending.
C33_ReconcileSettles ==
  /\ [](walk.n <= 1)
  /\ <>[](mounted /\ navReq = <<>>)

\* A navigation was requested and served, and the pass that followed it
\* requested nothing although the step does not match the path it asked for.
C33_Witness ==
  /\ lastOp.op = "navigated"
  /\ walk.n = 1
  /\ navReq = <<>>
  /\ StepDefined(state.currentStepIndex)
  /\ ~isMatch(StepAt(state.currentStepIndex), currentPath)

\* C34: with simulateClicksOnNavigate, an external path change after which
\* the active current step matches the new path and the replay list of the
\* current position is not empty schedules a replay for that position,
\* whatever internal operations came before.
C34_ExternalPathChangeReplays ==
  (/\ lastOp.op = "pathChange"
   /\ config.simulateClicksOnNavigate
   /\ state.isActive
   /\ StepDefined(state.currentStepIndex)
   /\ isMatch(StepAt(state.currentStepIndex), currentPath)
   /\ simulateClicks(state.currentStepIndex, state.currentSubStepIndex,
                     currentPath) # <<>>)
    => /\ sim.invocations >= 1
       /\ sim.lastInvoked = simKey(state, currentPath)

\* C35: while isActive is false a nextStep call leaves the record unchanged
\* and triggers no click, no navigation and no completion callback.
C35_AdvanceInertWhenFinished ==
  (lastOp.op = "nextStep" /\ ~crashed /\ ~pre.isActive)
    => /\ state = pre
       /\ clicked = <<>>
       /\ navReq = <<>>
       /\ callbacks = 0

\* No index occurs twice in a list of completed steps.
NoDuplicates(list) ==
  \A i, j \in 1..Len(list) : list[i] = list[j] => i = j

\* C36: completedSteps never holds the same index twice, in any state that
\* nextStep, prevStep, finish, goToStep and reconciliation reach from a
\* record without duplicates.
C36_CompletedOnce == NoDuplicates(state.completedSteps)

\* A step that was already completed has just been advanced past again, after
\* a return to it.
C36_Witness ==
  /\ lastOp.op = "nextStep"
  /\ ~crashed
  /\ StepDefined(pre.currentStepIndex)
  /\ Includes(pre.completedSteps, pre.currentStepIndex)
  /\ state.currentStepIndex = pre.currentStepIndex + 1

\* C37: in every state reached from the zero-value record by nextStep,
\* prevStep, goToStep with valid arguments and reconciliation, an entry of
\* subStepProgress for currentStepIndex equals currentSubStepIndex.
C37_ResumeEntryIsCurrent ==
  (state.currentStepIndex \in DOMAIN state.subStepProgress)
    => state.subStepProgress[state.currentStepIndex] = state.currentSubStepIndex

\* The record has just come back to a step that had a resume entry, and
\* stands on the sub-step the entry names.
C37_Witness ==
  /\ lastOp.op \in {"prevStep", "pathChange", "goToStep"}
  /\ ~crashed
  /\ state.currentStepIndex # pre.currentStepIndex
  /\ state.currentStepIndex \in DOMAIN pre.subStepProgress
  /\ state.currentSubStepIndex # Null
  /\ state.subStepProgress[state.currentStepIndex] = state.currentSubStepIndex

\* The sum over the steps from index i on of one plus the number of
\* sub-steps.
RECURSIVE CallsFrom(_)
CallsFrom(i) ==
  IF i >= NumSteps THEN 0 ELSE 1 + Len(StepAt(i).subSteps) + CallsFrom(i + 1)

\* C38: repeated nextStep calls from the zero-value record, with no path
\* change and no other operation, finish the flow after exactly the sum over
\* all steps of one plus the number of sub-steps: before that many calls the
\* flow is active, from then on it is not and completedSteps holds every
\* step index; no call fails.
C38_AdvanceFinishes ==
  (walk.phase = "advance")
    => /\ ~crashed
       /\ (walk.n < CallsFrom(0) => state.isActive)
       /\ (walk.n >= CallsFrom(0)
             => /\ ~state.isActive
                /\ \A i \in 0..(NumSteps - 1) : Includes(state.completedSteps, i))

\* A nextStep call was made on an active record at a valid position.
AdvancedFromValidActive ==
  /\ lastOp.op = "nextStep"
  /\ pre.isActive
  /\ StepDefined(pre.currentStepIndex)
  /\ \/ pre.currentSubStepIndex = Null
     \/ SubDefined(StepAt(pre.currentStepIndex), pre.currentSubStepIndex)

\* C39: from every valid active position nextStep sets isActive to false
\* exactly when isLastStep was true before the call.
C39_FinishIffLastStep ==
  AdvancedFromValidActive => (~state.isActive <=> isLastStep(pre))

\* C40: a step declared with an empty sub-step list behaves like the same
\* step declared without one: nextStep from (s, null) completes step s, does
\* not set currentSubStepIndex to 0 and does not fail.
C40_EmptySubStepList ==
  (/\ lastOp.op = "nextStep"
   /\ StepDefined(pre.currentStepIndex)
   /\ pre.currentSubStepIndex = Null
   /\ StepAt(pre.currentStepIndex).hasSubs
   /\ StepAt(pre.currentStepIndex).subSteps = <<>>)
    => /\ ~crashed
       /\ state.currentSubStepIndex # 0
       /\ Includes(state.completedSteps, pre.currentStepIndex)
====
